---- MODULE Spec2Model ----
(***************************************************************************)
(* Model of src/app.py: the ANCINE bulletin extractor (parse_ancine_pdf    *)
(* with clean_int_br / clean_currency_br) and the per-film aggregation     *)
(* (df_grouped).                                                           *)
(*                                                                         *)
(* Text is modelled character by character: a Python str is a sequence of  *)
(* one-character strings, so str.strip, str.split, str.replace, re.split   *)
(* and the int()/float() parsers are computed as the interpreter computes  *)
(* them on the alphabet the input pool uses (ASCII letters, digits, space, *)
(* newline, '.', ',', '-', '+', 'R', '$').                                 *)
(***************************************************************************)
EXTENDS Integers, Sequences, FiniteSets, TLC

\* Largest number of files in one upload (a bound of the model).
MaxFiles == 2

(***************************************************************************)
(* Characters                                                              *)
(***************************************************************************)
Digits == {"0", "1", "2", "3", "4", "5", "6", "7", "8", "9"}

\* str.strip(), str.split() and the regex class \s on the model's alphabet.
Whitespace == {" ", "\n"}

IsDigit(c) == c \in Digits

DigitVal(c) ==
    CASE c = "0" -> 0 [] c = "1" -> 1 [] c = "2" -> 2 [] c = "3" -> 3
      [] c = "4" -> 4 [] c = "5" -> 5 [] c = "6" -> 6 [] c = "7" -> 7
      [] c = "8" -> 8 [] c = "9" -> 9

\* str.upper() on one character of the alphabet.
UpperChar(c) ==
    CASE c = "a" -> "A" [] c = "b" -> "B" [] c = "c" -> "C" [] c = "d" -> "D"
      [] c = "e" -> "E" [] c = "f" -> "F" [] c = "g" -> "G" [] c = "i" -> "I"
      [] c = "k" -> "K" [] c = "l" -> "L" [] c = "m" -> "M" [] c = "n" -> "N"
      [] c = "o" -> "O" [] c = "r" -> "R" [] c = "s" -> "S" [] c = "t" -> "T"
      [] c = "u" -> "U" [] c = "x" -> "X" [] c = "y" -> "Y"
      [] OTHER -> c

\* Code point of a character (the order pandas sorts group keys by).
Ord(c) ==
    CASE c = "\n" -> 10 [] c = " " -> 32 [] c = "$" -> 36 [] c = "+" -> 43
      [] c = "," -> 44 [] c = "-" -> 45 [] c = "." -> 46
      [] c \in Digits -> 48 + DigitVal(c)
      [] c = "A" -> 65 [] c = "B" -> 66 [] c = "C" -> 67 [] c = "D" -> 68
      [] c = "E" -> 69 [] c = "F" -> 70 [] c = "G" -> 71 [] c = "I" -> 73
      [] c = "K" -> 75 [] c = "L" -> 76 [] c = "M" -> 77 [] c = "N" -> 78
      [] c = "O" -> 79 [] c = "R" -> 82 [] c = "S" -> 83 [] c = "T" -> 84
      [] c = "U" -> 85 [] c = "X" -> 88 [] c = "Y" -> 89
      [] c = "a" -> 97 [] c = "b" -> 98 [] c = "c" -> 99 [] c = "d" -> 100
      [] c = "e" -> 101 [] c = "f" -> 102 [] c = "g" -> 103 [] c = "i" -> 105
      [] c = "k" -> 107 [] c = "l" -> 108 [] c = "m" -> 109 [] c = "n" -> 110
      [] c = "o" -> 111 [] c = "r" -> 114 [] c = "s" -> 115 [] c = "t" -> 116
      [] c = "u" -> 117 [] c = "x" -> 120 [] c = "y" -> 121

(***************************************************************************)
(* Python str methods                                                      *)
(***************************************************************************)
Drop(s, n) == SubSeq(s, n + 1, Len(s))

\* number of whitespace characters at the start of s, from position i on
RECURSIVE leading_ws(_, _)
leading_ws(s, i) ==
    IF i <= Len(s) /\ s[i] \in Whitespace THEN 1 + leading_ws(s, i + 1) ELSE 0

\* number of whitespace characters at the end of s, from position i back
RECURSIVE trailing_ws(_, _)
trailing_ws(s, i) ==
    IF i >= 1 /\ s[i] \in Whitespace THEN 1 + trailing_ws(s, i - 1) ELSE 0

lstrip(s) == Drop(s, leading_ws(s, 1))

rstrip(s) == SubSeq(s, 1, Len(s) - trailing_ws(s, Len(s)))

\* str.strip()
strip(s) == rstrip(lstrip(s))

\* s has pat at position i
HasAt(s, pat, i) ==
    i + Len(pat) - 1 <= Len(s) /\ \A k \in 1..Len(pat) : s[i + k - 1] = pat[k]

\* `sub in s`
Contains(s, sub) == \E i \in 1..(Len(s) - Len(sub) + 1) : HasAt(s, sub, i)

\* str.replace(old, new), old non-empty: left to right from position i
RECURSIVE replace_from(_, _, _, _)
replace_from(s, old, new, i) ==
    IF i > Len(s) THEN <<>>
    ELSE IF HasAt(s, old, i) THEN new \o replace_from(s, old, new, i + Len(old))
    ELSE <<s[i]>> \o replace_from(s, old, new, i + 1)

replace(s, old, new) == replace_from(s, old, new, 1)

\* length of the run of s from position i up to, not including, the next
\* character of cs (or the end of s)
RECURSIVE run_len(_, _, _)
run_len(s, cs, i) ==
    IF i <= Len(s) /\ s[i] \notin cs THEN 1 + run_len(s, cs, i + 1) ELSE 0

\* str.split(sep) with a one-character separator: empty fields are kept.
RECURSIVE split_sep_from(_, _, _)
split_sep_from(s, sep, i) ==
    IF i + run_len(s, {sep}, i) > Len(s) THEN <<SubSeq(s, i, Len(s))>>
    ELSE <<SubSeq(s, i, i + run_len(s, {sep}, i) - 1)>>
             \o split_sep_from(s, sep, i + run_len(s, {sep}, i) + 1)

split_sep(s, sep) == split_sep_from(s, sep, 1)

\* str.split() without arguments: runs of whitespace separate, no empty field.
RECURSIVE split_ws_from(_, _)
split_ws_from(s, i) ==
    IF i > Len(s) THEN <<>>
    ELSE IF s[i] \in Whitespace THEN split_ws_from(s, i + 1)
    ELSE <<SubSeq(s, i, i + run_len(s, Whitespace, i) - 1)>>
             \o split_ws_from(s, i + run_len(s, Whitespace, i))

split_ws(s) == split_ws_from(s, 1)

\* str.upper()
upper(s) == [i \in 1..Len(s) |-> UpperChar(s[i])]

(***************************************************************************)
(* Python int() and float()                                                *)
(***************************************************************************)
AllDigits(s) == \A i \in 1..Len(s) : IsDigit(s[i])

\* value of the first n digits of s
RECURSIVE digits_value(_, _)
digits_value(s, n) ==
    IF n = 0 THEN 0 ELSE 10 * digits_value(s, n - 1) + DigitVal(s[n])

DigitsToNat(s) == digits_value(s, Len(s))

RECURSIVE Pow10(_)
Pow10(k) == IF k <= 0 THEN 1 ELSE 10 * Pow10(k - 1)

HasSign(s) == s # <<>> /\ Head(s) \in {"+", "-"}
Unsigned(s) == IF HasSign(s) THEN Tail(s) ELSE s
SignOf(s) == IF s # <<>> /\ Head(s) = "-" THEN -1 ELSE 1

\* int(s): [ok] is FALSE where Python raises ValueError.
ParseInt(s) ==
    LET d == Unsigned(s) IN
    IF d # <<>> /\ AllDigits(d)
    THEN [ok |-> TRUE, val |-> SignOf(s) * DigitsToNat(d)]
    ELSE [ok |-> FALSE, val |-> 0]

(***************************************************************************)
(* A float64 is modelled exactly on the values the input pool produces:    *)
(* big * 10^22 + cents / 100, where a float has big = 0 or cents = 0.      *)
(* 10^22 has a 52-bit significand, so k * 10^22 is a float for |k| <= 4,   *)
(* and adding x with |x| < 2^20 to such a float rounds back to it (the     *)
(* half-ulp at 10^22 is 2^20); sums of multiples of 0.5 below 2^20 are     *)
(* exact.  BigExp is the exponent of the large unit, in cents.             *)
(***************************************************************************)
BigExp == 24

FloatZero == [big |-> 0, cents |-> 0]

\* Round an exact sum to the nearest float: next to a multiple of 10^22 the
\* small part is below half an ulp and is lost.
FloatRound(x) == IF x.big # 0 THEN [big |-> x.big, cents |-> 0] ELSE x

\* float64 addition and negation
FloatAdd(a, b) ==
    FloatRound([big |-> a.big + b.big, cents |-> a.cents + b.cents])

FloatNeg(a) == [big |-> -a.big, cents |-> -a.cents]

FloatSub(a, b) == FloatAdd(a, FloatNeg(b))

\* The float written sign * n * 10^(k-2), k the power of ten in cents.
FloatOf(sign, n, k) ==
    IF n = 0 THEN FloatZero
    ELSE IF k >= BigExp THEN [big |-> sign * n * Pow10(k - BigExp), cents |-> 0]
    ELSE IF k >= 0 THEN [big |-> 0, cents |-> sign * n * Pow10(k)]
    ELSE [big |-> 0, cents |-> sign * (n \div Pow10(-k))]

\* position of the first character of s that is in cs, 0 if none
IndexOf(s, cs) ==
    IF run_len(s, cs, 1) = Len(s) THEN 0 ELSE run_len(s, cs, 1) + 1

\* float(s) for decimal literals: [sign] digits [. digits] [e [sign] digits]
\* (also ".5" and "5."); [ok] is FALSE where Python raises ValueError.  The
\* words inf, infinity and nan are not in the input pool.
ParseFloat(s) ==
    LET body == Unsigned(s)
        e    == IndexOf(body, {"e", "E"})
        mant == IF e = 0 THEN body ELSE SubSeq(body, 1, e - 1)
        expo == IF e = 0 THEN <<>> ELSE Drop(body, e)
        dot  == IndexOf(mant, {"."})
        ip   == IF dot = 0 THEN mant ELSE SubSeq(mant, 1, dot - 1)
        fp   == IF dot = 0 THEN <<>> ELSE Drop(mant, dot)
        eOk  == e = 0 \/ (Unsigned(expo) # <<>> /\ AllDigits(Unsigned(expo)))
        mOk  == AllDigits(ip) /\ AllDigits(fp) /\ Len(ip) + Len(fp) >= 1
        ev   == IF e = 0 THEN 0 ELSE SignOf(expo) * DigitsToNat(Unsigned(expo))
    IN  IF mOk /\ eOk
        THEN [ok |-> TRUE,
              val |-> FloatOf(SignOf(s), DigitsToNat(ip \o fp), ev - Len(fp) + 2)]
        ELSE [ok |-> FALSE, val |-> FloatZero]

(***************************************************************************)
(* clean_currency_br / clean_int_br (the argument is always a str here)    *)
(***************************************************************************)
clean_currency_br(x) ==
    LET c1 == strip(replace(x, <<"R", "$">>, <<>>))
        c2 == replace(c1, <<".">>, <<>>)
        c3 == replace(c2, <<",">>, <<".">>)
        r  == ParseFloat(c3)
    IN  IF r.ok THEN r.val ELSE FloatZero

\* (clean_int_br returning -1 in the except clause)
clean_int_br_neg(x) ==
    LET r == ParseInt(strip(replace(x, <<".">>, <<>>)))
    IN  IF r.ok THEN r.val ELSE -1

clean_int_br(x) ==
    LET r == ParseInt(strip(replace(x, <<".">>, <<>>)))
    IN  IF r.ok THEN r.val ELSE 0

(***************************************************************************)
(* The two regular expressions of parse_ancine_pdf                         *)
(***************************************************************************)
CpbDigits == 13
YearDigits == 4

\* cpb_pattern = ([BE]\d{13}) matches at position i of s
CpbAt(s, i) ==
    /\ i + CpbDigits <= Len(s)
    /\ s[i] \in {"B", "E"}
    /\ \A k \in 1..CpbDigits : IsDigit(s[i + k])

\* position of the first match of cpb_pattern in s at or after i, 0 if none
RECURSIVE cpb_search(_, _)
cpb_search(s, i) ==
    IF i > Len(s) THEN 0
    ELSE IF CpbAt(s, i) THEN i
    ELSE cpb_search(s, i + 1)

\* cpb_pattern.split(line): the text around the non-overlapping matches, left
\* to right, each match kept as its own element (one capture group).
RECURSIVE cpb_split_from(_, _)
cpb_split_from(s, i) ==
    IF cpb_search(s, i) = 0 THEN <<SubSeq(s, i, Len(s))>>
    ELSE <<SubSeq(s, i, cpb_search(s, i) - 1),
           SubSeq(s, cpb_search(s, i), cpb_search(s, i) + CpbDigits)>>
             \o cpb_split_from(s, cpb_search(s, i) + CpbDigits + 1)

cpb_split(s) == cpb_split_from(s, 1)

\* year_check = ^(\d{4})\s+ matches line
year_check_match(line) ==
    /\ Len(line) > YearDigits
    /\ \A i \in 1..YearDigits : IsDigit(line[i])
    /\ line[YearDigits + 1] \in Whitespace

(***************************************************************************)
(* The body of the line loop of parse_ancine_pdf (lines 61-100)            *)
(***************************************************************************)
MinParts == 3
MinTokens == 2

\* "Brasileira", the marker text of line 92
Marker == <<"B", "r", "a", "s", "i", "l", "e", "i", "r", "a">>

\* (len(parts) >= 1: the test of line 70 always passing)
has_cpb_any(parts) == Len(parts) >= 1

\* len(parts) >= 3

has_cpb(parts) == Len(parts) >= MinParts

\* header_part = parts[0].strip()
header_part(parts) == strip(parts[1])

\* (parts[2] in place of parts[-1])
meta_part_third(parts) == strip(parts[MinParts])

\* meta_part = parts[-1].strip()

meta_part(parts) == strip(parts[Len(parts)])

\* ano = header_part[:4]
ano_of(header) ==
    SubSeq(header, 1, IF Len(header) < YearDigits THEN Len(header) ELSE YearDigits)

\* titulo = header_part[4:].strip()
titulo_of(header) == strip(Drop(header, YearDigits))

\* "Brasileira" if "Brasileira" in meta_part else "Estrangeira"
nacionalidade_of(meta) ==
    IF Contains(meta, Marker) THEN "Brasileira" ELSE "Estrangeira"

\* The dict appended at lines 94-100; int(ano) is evaluated first.
make_row(header, meta, tokens) ==
    [Ano_Exibicao  |-> ParseInt(ano_of(header)).val,
     Titulo        |-> titulo_of(header),
     Nacionalidade |-> nacionalidade_of(meta),
     Publico       |-> clean_int_br(tokens[Len(tokens) - 1]),
     Renda         |-> clean_currency_br(tokens[Len(tokens)])]

\* One pass of the loop body over a raw line: kind "skip" (continue, or an
\* if that is not taken), "row" (data.append) or "raise" (int(ano) raises
\* ValueError, which leaves the loops for the except clause of the file).
scan_line(raw) ==
    LET line  == strip(raw)
        parts == cpb_split(line)
    IN  IF ~year_check_match(line) THEN [kind |-> "skip", rows |-> <<>>]
        ELSE IF ~has_cpb(parts) THEN [kind |-> "skip", rows |-> <<>>]
        ELSE LET header == header_part(parts)
                 meta   == meta_part(parts)
                 tokens == split_ws(meta)
             IN  IF Len(tokens) < MinTokens THEN [kind |-> "skip", rows |-> <<>>]
                 ELSE IF ~ParseInt(ano_of(header)).ok
                 THEN [kind |-> "raise", rows |-> <<>>]
                 ELSE [kind |-> "row", rows |-> <<make_row(header, meta, tokens)>>]

(***************************************************************************)
(* The input pool: bulletin lines as pypdf hands them over, and the files  *)
(* built from them.  A page is what page.extract_text() does: it raises or *)
(* returns a text; a file is what pypdf.PdfReader(file) does: it raises    *)
(* (corrupt) or gives the pages.                                           *)
(***************************************************************************)
\* "Ano Titulo"
LineHeader ==
    <<"A", "n", "o", " ", "T", "i", "t", "u", "l", "o">>

\* "  2009 Filme X   B0901024500000   Brasileira 10.000 50.000,00 "
LineGood ==
    <<" ", " ", "2", "0", "0", "9", " ", "F", "i", "l", "m", "e", " ", "X", " ", " ", " ", "B", "0", "9", "0", "1", "0", "2", "4", "5", "0", "0", "0", "0", "0", " ", " ", " ", "B", "r", "a", "s", "i", "l", "e", "i", "r", "a", " ", "1", "0", ".", "0", "0", "0", " ", "5", "0", ".", "0", "0", "0", ",", "0", "0", " ">>

\* "2008 filme x B0901024500000 Brasileira 5 2,50"
LineFold ==
    <<"2", "0", "0", "8", " ", "f", "i", "l", "m", "e", " ", "x", " ", "B", "0", "9", "0", "1", "0", "2", "4", "5", "0", "0", "0", "0", "0", " ", "B", "r", "a", "s", "i", "l", "e", "i", "r", "a", " ", "5", " ", "2", ",", "5", "0">>

\* "2010 filme x E1402431200000 Estrangeira 12 R$1,50"
LineOther ==
    <<"2", "0", "1", "0", " ", "f", "i", "l", "m", "e", " ", "x", " ", "E", "1", "4", "0", "2", "4", "3", "1", "2", "0", "0", "0", "0", "0", " ", "E", "s", "t", "r", "a", "n", "g", "e", "i", "r", "a", " ", "1", "2", " ", "R", "$", "1", ",", "5", "0">>

\* "2009 Sem Codigo 10 20,00"
LineNoCpb ==
    <<"2", "0", "0", "9", " ", "S", "e", "m", " ", "C", "o", "d", "i", "g", "o", " ", "1", "0", " ", "2", "0", ",", "0", "0">>

\* "2009 Um Token B0901024500000 7"
LineOneToken ==
    <<"2", "0", "0", "9", " ", "U", "m", " ", "T", "o", "k", "e", "n", " ", "B", "0", "9", "0", "1", "0", "2", "4", "5", "0", "0", "0", "0", "0", " ", "7">>

\* "2009 B0901024500000 Brasileira 3 4,00"
LineNoTitle ==
    <<"2", "0", "0", "9", " ", "B", "0", "9", "0", "1", "0", "2", "4", "5", "0", "0", "0", "0", "0", " ", "B", "r", "a", "s", "i", "l", "e", "i", "r", "a", " ", "3", " ", "4", ",", "0", "0">>

\* "2011 Filme X B0901024500000 Brasileira abc x,y"
LineBadNum ==
    <<"2", "0", "1", "1", " ", "F", "i", "l", "m", "e", " ", "X", " ", "B", "0", "9", "0", "1", "0", "2", "4", "5", "0", "0", "0", "0", "0", " ", "B", "r", "a", "s", "i", "l", "e", "i", "r", "a", " ", "a", "b", "c", " ", "x", ",", "y">>

\* "2012 Filme X B0901024500000 Brasileira -5 -1,00"
LineNeg ==
    <<"2", "0", "1", "2", " ", "F", "i", "l", "m", "e", " ", "X", " ", "B", "0", "9", "0", "1", "0", "2", "4", "5", "0", "0", "0", "0", "0", " ", "B", "r", "a", "s", "i", "l", "e", "i", "r", "a", " ", "-", "5", " ", "-", "1", ",", "0", "0">>

\* "2013 Brasileira B0901024500000 Brasileira E1402431200000 Doc 1 2,00"
LineTwoCpb ==
    <<"2", "0", "1", "3", " ", "B", "r", "a", "s", "i", "l", "e", "i", "r", "a", " ", "B", "0", "9", "0", "1", "0", "2", "4", "5", "0", "0", "0", "0", "0", " ", "B", "r", "a", "s", "i", "l", "e", "i", "r", "a", " ", "E", "1", "4", "0", "2", "4", "3", "1", "2", "0", "0", "0", "0", "0", " ", "D", "o", "c", " ", "1", " ", "2", ",", "0", "0">>

\* "20091 Filme X B0901024500000 Brasileira 1 1,00"
LineLongYear ==
    <<"2", "0", "0", "9", "1", " ", "F", "i", "l", "m", "e", " ", "X", " ", "B", "0", "9", "0", "1", "0", "2", "4", "5", "0", "0", "0", "0", "0", " ", "B", "r", "a", "s", "i", "l", "e", "i", "r", "a", " ", "1", " ", "1", ",", "0", "0">>

\* "2009 Filme X B0901024500000 Brasileira 1 1e22"
LineBig ==
    <<"2", "0", "0", "9", " ", "F", "i", "l", "m", "e", " ", "X", " ", "B", "0", "9", "0", "1", "0", "2", "4", "5", "0", "0", "0", "0", "0", " ", "B", "r", "a", "s", "i", "l", "e", "i", "r", "a", " ", "1", " ", "1", "e", "2", "2">>

\* "2009 Filme X B0901024500000 Brasileira 1 1,00"
LineOne ==
    <<"2", "0", "0", "9", " ", "F", "i", "l", "m", "e", " ", "X", " ", "B", "0", "9", "0", "1", "0", "2", "4", "5", "0", "0", "0", "0", "0", " ", "B", "r", "a", "s", "i", "l", "e", "i", "r", "a", " ", "1", " ", "1", ",", "0", "0">>

\* "2009 Filme X B0901024500000 Brasileira 1 -1e22"
LineBigNeg ==
    <<"2", "0", "0", "9", " ", "F", "i", "l", "m", "e", " ", "X", " ", "B", "0", "9", "0", "1", "0", "2", "4", "5", "0", "0", "0", "0", "0", " ", "B", "r", "a", "s", "i", "l", "e", "i", "r", "a", " ", "1", " ", "-", "1", "e", "2", "2">>

NL == <<"\n">>

Page(text) == [raises |-> FALSE, text |-> text]
PageRaises == [raises |-> TRUE, text |-> <<>>]

FileGood ==
    [name |-> "good.pdf", corrupt |-> FALSE,
     pages |-> << Page(LineHeader \o NL \o LineGood \o NL \o LineNoTitle),
                  Page(LineFold \o NL \o LineNoCpb \o NL) >>]

FileCorrupt == [name |-> "corrupt.pdf", corrupt |-> TRUE, pages |-> <<>>]

FileTruncated ==
    [name |-> "truncated.pdf", corrupt |-> FALSE,
     pages |-> << Page(LineOther \o NL \o LineOneToken), PageRaises,
                  Page(LineGood) >>]

FileMixed ==
    [name |-> "mixed.pdf", corrupt |-> FALSE,
     pages |-> << Page(<<>>),
                  Page(LineTwoCpb \o NL \o LineBadNum \o NL \o LineLongYear
                           \o NL \o LineNeg) >>]

FileLarge ==
    [name |-> "large.pdf", corrupt |-> FALSE,
     pages |-> << Page(LineBig \o NL \o LineOne \o NL \o LineBigNeg) >>]

FilePool == {FileGood, FileCorrupt, FileTruncated, FileMixed, FileLarge}

Uploads == UNION {[1..n -> FilePool] : n \in 0..MaxFiles}

\* text.split('\n') and the body of the line loop, tabulated over the texts
\* and the lines of the pool (each is computed once, not once per state).
PoolTexts ==
    UNION {{file.pages[i].text : i \in 1..Len(file.pages)} : file \in FilePool}
        \ {<<>>}

SplitTable == {<<t, split_sep(t, "\n")>> : t \in PoolTexts}

split_lines(text) == (CHOOSE e \in SplitTable : e[1] = text)[2]

PoolLines == UNION {{e[2][i] : i \in 1..Len(e[2])} : e \in SplitTable}

ScanTable == {<<raw, scan_line(raw)>> : raw \in PoolLines}

scanned_line(raw) == (CHOOSE e \in ScanTable : e[1] = raw)[2]

(***************************************************************************)
(* The aggregation of lines 138-145                                        *)
(***************************************************************************)
\* (Titulo_Norm without .str.upper())
titulo_norm_raw(t) == strip(t)

\* df_raw['Titulo'].str.upper().str.strip()

titulo_norm(t) == strip(upper(t))

with_norm(row) ==
    [Ano_Exibicao  |-> row.Ano_Exibicao,
     Titulo        |-> row.Titulo,
     Nacionalidade |-> row.Nacionalidade,
     Publico       |-> row.Publico,
     Renda         |-> row.Renda,
     Titulo_Norm   |-> titulo_norm(row.Titulo)]

\* the groupby key ['Titulo_Norm', 'Nacionalidade']
key_of(row) == <<row.Titulo_Norm, row.Nacionalidade>>

\* str < str: by code point, a proper prefix first
RECURSIVE str_less(_, _)
str_less(a, b) ==
    IF b = <<>> THEN FALSE
    ELSE IF a = <<>> THEN TRUE
    ELSE IF Head(a) # Head(b) THEN Ord(Head(a)) < Ord(Head(b))
    ELSE str_less(Tail(a), Tail(b))

key_less(j, k) ==
    \/ str_less(j[1], k[1])
    \/ j[1] = k[1] /\ j[2] = "Brasileira" /\ k[2] = "Estrangeira"

\* groupby(sort=True): the distinct keys in ascending order
RECURSIVE sort_keys(_)
sort_keys(ks) ==
    IF ks = {} THEN <<>>
    ELSE LET m == CHOOSE k \in ks : \A j \in ks \ {k} : key_less(k, j)
         IN  <<m>> \o sort_keys(ks \ {m})

\* the rows of one group, in table order
rows_of(df, k) == SelectSeq(df, LAMBDA r : key_of(r) = k)

\* 'sum' over an int64 column
RECURSIVE int_sum(_)
int_sum(xs) == IF xs = <<>> THEN 0 ELSE Head(xs) + int_sum(Tail(xs))

\* 'sum' over a float64 column, added in table order.  pandas' group_sum adds
\* with Kahan compensation since 1.2 and plainly before; [compensated] is the build.
RECURSIVE float_sum(_, _, _, _)
float_sum(xs, acc, comp, compensated) ==
    IF xs = <<>> THEN acc
    ELSE IF compensated
    THEN LET y == FloatSub(Head(xs), comp)
             t == FloatAdd(acc, y)
         IN  float_sum(Tail(xs), t, FloatSub(FloatSub(t, acc), y), compensated)
    ELSE float_sum(Tail(xs), FloatAdd(acc, Head(xs)), comp, compensated)

\* 'min' and 'first' over a column
RECURSIVE int_min(_)
int_min(xs) ==
    IF Len(xs) = 1 THEN xs[1]
    ELSE LET m == int_min(Tail(xs)) IN IF Head(xs) < m THEN Head(xs) ELSE m

first_of(xs) == xs[1]

column(rows, field) == [i \in 1..Len(rows) |-> rows[i][field]]

ano_agg(xs) == int_min(xs)

\* one row of df_grouped
grouped_row(df, k, compensated) ==
    LET g == rows_of(df, k) IN
    [Titulo_Norm   |-> k[1],
     Nacionalidade |-> k[2],
     Titulo        |-> first_of(column(g, "Titulo")),
     Publico       |-> int_sum(column(g, "Publico")),
     Renda         |-> float_sum(column(g, "Renda"), FloatZero, FloatZero, compensated),
     Ano_Exibicao  |-> ano_agg(column(g, "Ano_Exibicao"))]

\* df_raw.groupby([...]).agg({...}).reset_index()
groupby_agg(df, compensated) ==
    LET ks == sort_keys({key_of(df[i]) : i \in 1..Len(df)})
    IN  [i \in 1..Len(ks) |-> grouped_row(df, ks[i], compensated)]

(***************************************************************************)
(* State                                                                   *)
(***************************************************************************)
VARIABLES
    uploaded_files, \* the files of the st.file_uploader widget
    kahan,          \* the pandas build: group_sum compensates or not
    pc,             \* "idle", "file", "page", "line", "returned", "grouped", "warned"
    f,              \* index of uploaded_file in the loop of line 51
    p,              \* index of page in the loop of line 55
    lines,          \* text.split('\n') of the current page
    l,              \* index of line in the loop of line 60
    data,           \* the list of line 42
    errors,         \* the file names st.error was called with (line 103)
    df_raw,         \* the DataFrame returned at line 105
    df_grouped,     \* the DataFrame of line 140
    origin          \* history: for each element of data, <<f, p, l>> of its line

vars ==
    <<uploaded_files, kahan, pc, f, p, lines, l, data, errors, df_raw,
      df_grouped, origin>>

Init ==
    /\ uploaded_files \in Uploads
    /\ kahan \in BOOLEAN
    /\ pc = "idle"
    /\ f = 0
    /\ p = 0
    /\ lines = <<>>
    /\ l = 0
    /\ data = <<>>
    /\ errors = <<>>
    /\ df_raw = <<>>
    /\ df_grouped = <<>>
    /\ origin = <<>>

\* (the except clause leaving the loop of line 51)
after_error_stop(i) == Len(uploaded_files) + 1

\* the for loop of line 51 moves on after the except clause of lines 102-103

after_error(i) == i + 1

\* (data.insert(0, row))
append_front(xs, row) == <<row>> \o xs

\* data.append(row)

append(xs, row) == xs \o <<row>>

\* lines 129-131: the button is pressed with files uploaded; parse_ancine_pdf
\* starts with data = []
Press ==
    /\ pc = "idle"
    /\ uploaded_files # <<>>
    /\ pc' = "file"
    /\ f' = 1
    /\ data' = <<>>
    /\ UNCHANGED <<uploaded_files, kahan, p, lines, l, errors, df_raw,
                   df_grouped, origin>>

\* line 53: pypdf.PdfReader(uploaded_file) succeeds
OpenFile ==
    /\ pc = "file"
    /\ f <= Len(uploaded_files)
    /\ ~uploaded_files[f].corrupt
    /\ pc' = "page"
    /\ p' = 1
    /\ UNCHANGED <<uploaded_files, kahan, f, lines, l, data, errors, df_raw,
                   df_grouped, origin>>

\* line 53 raises: lines 102-103, then the next file
OpenFileRaises ==
    /\ pc = "file"
    /\ f <= Len(uploaded_files)
    /\ uploaded_files[f].corrupt
    /\ errors' = Append(errors, uploaded_files[f].name)
    /\ f' = after_error(f)
    /\ UNCHANGED <<uploaded_files, kahan, pc, p, lines, l, data, df_raw,
                   df_grouped, origin>>

\* lines 56-59: page.extract_text() returns a non-empty text
ExtractText ==
    /\ pc = "page"
    /\ p <= Len(uploaded_files[f].pages)
    /\ ~uploaded_files[f].pages[p].raises
    /\ uploaded_files[f].pages[p].text # <<>>
    /\ lines' = split_lines(uploaded_files[f].pages[p].text)
    /\ l' = 1
    /\ pc' = "line"
    /\ UNCHANGED <<uploaded_files, kahan, f, p, data, errors, df_raw,
                   df_grouped, origin>>

\* line 57: if not text: continue
ExtractTextEmpty ==
    /\ pc = "page"
    /\ p <= Len(uploaded_files[f].pages)
    /\ ~uploaded_files[f].pages[p].raises
    /\ uploaded_files[f].pages[p].text = <<>>
    /\ p' = p + 1
    /\ UNCHANGED <<uploaded_files, kahan, pc, f, lines, l, data, errors,
                   df_raw, df_grouped, origin>>

\* line 56 raises: lines 102-103, then the next file
ExtractTextRaises ==
    /\ pc = "page"
    /\ p <= Len(uploaded_files[f].pages)
    /\ uploaded_files[f].pages[p].raises
    /\ errors' = Append(errors, uploaded_files[f].name)
    /\ f' = after_error(f)
    /\ pc' = "file"
    /\ UNCHANGED <<uploaded_files, kahan, p, lines, l, data, df_raw,
                   df_grouped, origin>>

\* the loop of line 55 is exhausted: the next file
EndOfPages ==
    /\ pc = "page"
    /\ p > Len(uploaded_files[f].pages)
    /\ f' = f + 1
    /\ pc' = "file"
    /\ UNCHANGED <<uploaded_files, kahan, p, lines, l, data, errors, df_raw,
                   df_grouped, origin>>

\* lines 61-100: one pass of the line loop
ScanLine ==
    /\ pc = "line"
    /\ l <= Len(lines)
    /\ LET r == scanned_line(lines[l]) IN
       IF r.kind = "raise"
       THEN /\ errors' = Append(errors, uploaded_files[f].name)
            /\ f' = after_error(f)
            /\ pc' = "file"
            /\ UNCHANGED <<l, data, origin>>
       ELSE /\ data' = IF r.kind = "row" THEN append(data, r.rows[1]) ELSE data
            /\ origin' = IF r.kind = "row" THEN Append(origin, <<f, p, l>>)
                         ELSE origin
            /\ l' = l + 1
            /\ UNCHANGED <<errors, f, pc>>
    /\ UNCHANGED <<uploaded_files, kahan, p, lines, df_raw, df_grouped>>

\* the loop of line 60 is exhausted: the next page
EndOfLines ==
    /\ pc = "line"
    /\ l > Len(lines)
    /\ p' = p + 1
    /\ pc' = "page"
    /\ UNCHANGED <<uploaded_files, kahan, f, lines, l, data, errors, df_raw,
                   df_grouped, origin>>

\* line 105: return pd.DataFrame(data)
Return ==
    /\ pc = "file"
    /\ f > Len(uploaded_files)
    /\ df_raw' = data
    /\ pc' = "returned"
    /\ UNCHANGED <<uploaded_files, kahan, f, p, lines, l, data, errors,
                   df_grouped, origin>>

\* lines 133-145: the table is not empty; Titulo_Norm is added, then grouped
Group ==
    /\ pc = "returned"
    /\ df_raw # <<>>
    /\ LET df == [i \in 1..Len(df_raw) |-> with_norm(df_raw[i])] IN
          /\ df_raw' = df
          /\ df_grouped' = groupby_agg(df, kahan)
    /\ pc' = "grouped"
    /\ UNCHANGED <<uploaded_files, kahan, f, p, lines, l, data, errors, origin>>

\* the else branch of line 133: nothing was extracted
WarnEmpty ==
    /\ pc = "returned"
    /\ df_raw = <<>>
    /\ pc' = "warned"
    /\ UNCHANGED <<uploaded_files, kahan, f, p, lines, l, data, errors, df_raw,
                   df_grouped, origin>>

\* parse_ancine_pdf, from the call of line 131 to the return of line 105
Scan ==
    \/ Press
    \/ OpenFile
    \/ OpenFileRaises
    \/ ExtractText
    \/ ExtractTextEmpty
    \/ ExtractTextRaises
    \/ EndOfPages
    \/ ScanLine
    \/ EndOfLines
    \/ Return

Next ==
    \/ Scan
    \/ Group
    \/ WarnEmpty

Spec == Init /\ [][Next]_vars

\* The function runs on one thread and waits for nothing: once called, it
\* takes its next step until it returns.
FairSpec == Spec /\ WF_vars(Scan)

(***************************************************************************)
(* What the claims speak of, stated without the loop                       *)
(***************************************************************************)
RECURSIVE Concat(_)
Concat(ss) == IF ss = <<>> THEN <<>> ELSE Head(ss) \o Concat(Tail(ss))

\* the Records a text yields, line by line
TextRows(text) ==
    IF text = <<>> THEN <<>>
    ELSE LET ls == split_sep(text, "\n")
         IN  Concat([i \in 1..Len(ls) |-> scan_line(ls[i]).rows])

\* a file raises when it cannot be opened or one of its pages cannot be read
Raises(file) ==
    file.corrupt \/ \E i \in 1..Len(file.pages) : file.pages[i].raises

\* the pages read before the first one that raises
ReadablePages(file) ==
    IF file.corrupt THEN <<>>
    ELSE LET bad == {i \in 1..Len(file.pages) : file.pages[i].raises}
             n   == IF bad = {} THEN Len(file.pages)
                    ELSE (CHOOSE i \in bad : \A j \in bad : i <= j) - 1
         IN  SubSeq(file.pages, 1, n)

\* the Records a file yields when it is scanned on its own
RowsAlone(file) ==
    LET ps == ReadablePages(file)
    IN  Concat([i \in 1..Len(ps) |-> TextRows(ps[i].text)])

\* the Records of data that came from file i
RECURSIVE RowsFromUpTo(_, _)
RowsFromUpTo(i, n) ==
    IF n = 0 THEN <<>>
    ELSE RowsFromUpTo(i, n - 1)
             \o (IF origin[n][1] = i THEN <<data[n]>> ELSE <<>>)

RowsFrom(i) == RowsFromUpTo(i, Len(data))

FileIndexes == 1..Len(uploaded_files)

\* positions of the anchor token in a line
CpbPositions(line) == {i \in 1..Len(line) : CpbAt(line, i)}
FirstCpb(line) == CHOOSE i \in CpbPositions(line) : \A j \in CpbPositions(line) : i <= j
LastCpb(line) == CHOOSE i \in CpbPositions(line) : \A j \in CpbPositions(line) : j <= i

\* the header zone (before the first anchor) and the trailer zone (after the last)
HeaderZone(line) == SubSeq(line, 1, FirstCpb(line) - 1)
TrailerZone(line) == Drop(line, LastCpb(line) + CpbDigits)

\* the line is one of the three kinds that yield nothing
Unqualified(raw) ==
    LET line == strip(raw) IN
    \/ ~year_check_match(line)
    \/ CpbPositions(line) = {}
    \/ Len(split_ws(TrailerZone(line))) < MinTokens

\* the loop is about to scan a line
AtLine == pc = "line" /\ l <= Len(lines)

\* the loop has just scanned line k of the current page
JustScanned(k) == pc = "line" /\ l = k + 1 /\ k >= 1

\* float >= 0
FloatNonNeg(x) == x.big >= 0 /\ x.cents >= 0

\* the table, with the rows reordered by the permutation q of its indexes
Permuted(df, q) == [i \in 1..Len(df) |-> df[q[i]]]

\* the key and the three aggregates of each GroupedRecord
Totals(g) ==
    {[key |-> <<g[i].Titulo_Norm, g[i].Nacionalidade>>,
      total_audience |-> g[i].Publico,
      total_revenue |-> g[i].Renda,
      first_year |-> g[i].Ano_Exibicao] : i \in 1..Len(g)}

\* uppercase, trimmed title
NormalizedTitle(t) == strip(upper(t))
RecordKey(r) == <<NormalizedTitle(r.Titulo), r.Nacionalidade>>
RecordsOfKey(k) == SelectSeq(data, LAMBDA r : RecordKey(r) = k)

(***************************************************************************)
(* Claims                                                                  *)
(***************************************************************************)

\* C1: when the scan returns, the Raw Table holds exactly the Records of the
\* files that did not raise (a file that raised at any page contributes
\* nothing), and one error is reported per raising file.
C1_OnlyFilesThatDidNotRaise ==
    pc = "returned" =>
        /\ data = Concat([i \in FileIndexes |->
                             IF Raises(uploaded_files[i]) THEN <<>>
                             ELSE RowsAlone(uploaded_files[i])])
        /\ errors = Concat([i \in FileIndexes |->
                               IF Raises(uploaded_files[i])
                               THEN <<uploaded_files[i].name>> ELSE <<>>])

\* C2: a file that raises never stops the batch: every later file is reached
\* by the loop, the Records it yields are those it yields when scanned on its
\* own, and the scan ends by returning the Raw Table.
C2_FailureDoesNotStopBatch ==
    /\ [](pc = "returned" =>
            \A i \in FileIndexes : \A j \in FileIndexes :
                (i < j /\ Raises(uploaded_files[i]))
                    => RowsFrom(j) = RowsAlone(uploaded_files[j]))
    /\ \A j \in 1..MaxFiles :
          (pc = "file" /\ f <= j /\ j <= Len(uploaded_files))
              ~> (pc = "file" /\ f = j)
    /\ (pc = "file") ~> (pc = "returned" /\ df_raw = data)

\* C2 witness: the scan has returned, the first file raised and the second
\* one contributed Records.
C2_Witness ==
    /\ pc = "returned"
    /\ Len(uploaded_files) = 2
    /\ Raises(uploaded_files[1])
    /\ RowsFrom(2) # <<>>
    /\ RowsFrom(2) = RowsAlone(uploaded_files[2])

\* C3: every Record of the Raw Table has a non-empty title.
C3_TitleNotEmpty ==
    \A i \in 1..Len(data) : data[i].Titulo # <<>>

\* C4: a line that fails the year prefix, has no anchor token or has fewer
\* than 2 trailer tokens adds no Record, reports no error, and the loop goes
\* on to the next line of the same page.
C4_UnqualifiedLineIsSkipped ==
    [][(AtLine /\ Unqualified(lines[l])) =>
           /\ data' = data
           /\ errors' = errors
           /\ pc' = "line" /\ l' = l + 1
           /\ f' = f /\ p' = p /\ lines' = lines]_vars

\* C4 witness: a classified line without anchor, or with a single trailer
\* token, has just been passed and the page goes on.
C4_Witness ==
    /\ JustScanned(l - 1)
    /\ lines[l - 1] \in {LineNoCpb, LineOneToken}
    /\ Unqualified(lines[l - 1])
    /\ errors = <<>>

\* C5: a classified line with an anchor token and at least 2 trailer tokens
\* adds exactly one Record, without an error, and a field whose token does
\* not parse as a number is 0 in it.
C5_UnparsableNumberIsZero ==
    [][(AtLine /\ ~Unqualified(lines[l])) =>
           LET tokens == split_ws(TrailerZone(strip(lines[l])))
               aud    == strip(replace(tokens[Len(tokens) - 1], <<".">>, <<>>))
               rev    == replace(replace(strip(replace(tokens[Len(tokens)],
                                     <<"R", "$">>, <<>>)), <<".">>, <<>>),
                                 <<",">>, <<".">>)
           IN  /\ Len(data') = Len(data) + 1
               /\ SubSeq(data', 1, Len(data)) = data
               /\ errors' = errors
               /\ ~ParseInt(aud).ok => data'[Len(data')].Publico = 0
               /\ ParseInt(aud).ok => data'[Len(data')].Publico = ParseInt(aud).val
               /\ ~ParseFloat(rev).ok => data'[Len(data')].Renda = FloatZero]_vars

\* C5 witness: the line whose audience and revenue tokens are not numbers has
\* just been scanned and its Record holds 0 in both fields.
C5_Witness ==
    /\ JustScanned(l - 1)
    /\ lines[l - 1] = LineBadNum
    /\ data # <<>>
    /\ data[Len(data)].Publico = 0
    /\ data[Len(data)].Renda = FloatZero
    /\ data[Len(data)].Ano_Exibicao = 2011

\* C6: grouping any permutation of the Raw Table gives the same keys and, per
\* key, the same total_audience, total_revenue and first_year.
C6_OrderIndependent ==
    pc = "grouped" =>
        \A q \in Permutations(1..Len(df_raw)) :
            Totals(groupby_agg(Permuted(df_raw, q), kahan)) = Totals(df_grouped)

\* C7: the Grouped Table has exactly one row per distinct (uppercase trimmed
\* title, nationality) of the Raw Table, and its totals are the column sums
\* over the Records of that key.
C7_OneRowPerKey ==
    pc = "grouped" =>
        LET keys == {RecordKey(data[i]) : i \in 1..Len(data)} IN
        /\ Len(df_grouped) = Cardinality(keys)
        /\ \A k \in keys :
              \E i \in 1..Len(df_grouped) :
                  /\ <<df_grouped[i].Titulo_Norm, df_grouped[i].Nacionalidade>> = k
                  /\ df_grouped[i].Publico
                         = int_sum(column(RecordsOfKey(k), "Publico"))
                  /\ df_grouped[i].Renda
                         = float_sum(column(RecordsOfKey(k), "Renda"),
                                     FloatZero, FloatZero, kahan)

\* C7 witness: "Filme X" and "filme x", both Brazilian, are one row with the
\* audiences added, and the foreign "filme x" is another row.
C7_Witness ==
    /\ pc = "grouped"
    /\ \E i \in 1..Len(data) : \E j \in 1..Len(data) :
          /\ data[i].Titulo # data[j].Titulo
          /\ RecordKey(data[i]) = RecordKey(data[j])
    /\ \E i \in 1..Len(df_grouped) : \E j \in 1..Len(df_grouped) :
          /\ df_grouped[i].Titulo_Norm = df_grouped[j].Titulo_Norm
          /\ df_grouped[i].Nacionalidade = "Brasileira"
          /\ df_grouped[j].Nacionalidade = "Estrangeira"
          /\ df_grouped[i].Publico = 10005
          /\ df_grouped[j].Publico = 12

\* C8: every Record of the Raw Table, at every point of the scan, has
\* audience >= 0 and revenue >= 0.
C8_NonNegative ==
    \A i \in 1..Len(data) :
        data[i].Publico >= 0 /\ FloatNonNeg(data[i].Renda)

\* C9: the Raw Table only grows at its end, by at most one Record per line;
\* its Records are in file, page, line order, each the Record of its own
\* line; and nothing is deduplicated: the returned table is every Record of
\* every scanned line.
C9_AppendOnlyInScanOrder ==
    /\ [][/\ Len(data') >= Len(data)
          /\ Len(data') <= Len(data) + 1
          /\ SubSeq(data', 1, Len(data)) = data
          /\ (Len(data') = Len(data) + 1 =>
                 AtLine /\ origin'[Len(data')] = <<f, p, l>>
                        /\ <<data'[Len(data')]>> = scan_line(lines[l]).rows)]_vars
    /\ [](/\ Len(origin) = Len(data)
          /\ \A i \in 1..Len(origin) : \A j \in 1..Len(origin) :
                i < j =>
                    \/ origin[i][1] < origin[j][1]
                    \/ origin[i][1] = origin[j][1] /\ origin[i][2] < origin[j][2]
                    \/ /\ origin[i][1] = origin[j][1]
                       /\ origin[i][2] = origin[j][2]
                       /\ origin[i][3] < origin[j][3])
    /\ [](pc = "returned" =>
             data = Concat([i \in FileIndexes |-> RowsAlone(uploaded_files[i])]))

\* C9 witness: two identical lines have been scanned and the Raw Table holds
\* the two equal Records.
C9_Witness ==
    /\ pc = "returned"
    /\ \E i \in 1..Len(data) : \E j \in 1..Len(data) :
          i < j /\ data[i] = data[j] /\ origin[i] # origin[j]

====
